---- MODULE Spec2Model ----
(***************************************************************************)
(* GCS -> S3 relay: the transfer engine (transfer_blob_to_s3), the event   *)
(* handler (transfer_to_s3) and the sweep (cleanup_stale_files), run as    *)
(* two concurrent invocations against the staging store (GCS) and the      *)
(* destination store (S3).                                                 *)
(***************************************************************************)
EXTENDS Integers, Sequences, FiniteSets, TLC

\* ---------------------------------------------------------------- bounds
\* Number of source chunks the uploader pulls from one object's stream.
NChunks == 2
\* Number of scheduler periods the clock may advance.
MaxTicks == 4
\* Number of objects one page of bucket.list_blobs() holds.
PageSize == 1

\* ------------------------------------------------------- program constants
\* Cloud Scheduler period, minutes.
TickMinutes == 30
\* int(os.environ.get('AGE_THRESHOLD_MINUTES', '60'))
DefaultAgeThreshold == 60

\* ------------------------------------------------------------ the objects
TempBucket == "temp-bucket"
OtherBucket == "other-bucket"
NoKey == ""
\* bucket.list_blobs() yields names in lexicographic order.
KeyOrder == <<"a.jsonl", "b.log">>
Keys == {KeyOrder[i] : i \in 1..Len(KeyOrder)}
\* blob.content_encoding when the attribute is None.
NoEncoding == "<None>"
\* blob.content_encoding of each staged object.
ContentEncoding(k) == IF k = "a.jsonl" THEN "gzip" ELSE NoEncoding
\* blob.size of every object, in source chunks.
BlobSize(k) == NChunks
\* blob.time_created of each staged object, minutes on the model's clock.
TimeCreated(k) == IF k = "a.jsonl" THEN 0 ELSE TickMinutes

\* The two invocations that can run at the same time.
Procs == {"event", "sweep"}
Other(p) == IF p = "event" THEN "sweep" ELSE "event"
\* dest[k] = Absent: no object under k; otherwise the number of source chunks
\* the stored object holds (NChunks: the whole object).
Absent == -1
\* The two copies of function_source.
Variants == {"shared-gcp-resources", "gcp-to-s3-pipeline"}

\* gz while no byte stream is looked at.
NoStream == [phase |-> "none"]

VARIABLES
  staging,      \* [Keys -> BOOLEAN]: the object is in the staging bucket
  dest,         \* [Keys -> Absent..NChunks]: the object in the target bucket
  now,          \* datetime.now(timezone.utc), minutes
  events,       \* creation notifications not yet delivered
  ev,           \* the event handler invocation
  sw,           \* the sweep invocation
  tr,           \* [Procs -> record]: each invocation's transfer_blob_to_s3 call
  firstUpload,  \* [Keys -> Procs \cup {"none"}]: whose upload completed first
  succeeded,    \* keys some transfer has returned 'success' for
  deletedBy,    \* [Keys -> Procs \cup {"none"}]: whose delete removed the object
  faulty,       \* the stores and the credential exchange can still fail
  variant,      \* which module's function_source is deployed
  foreign,      \* the object KeyOrder[1] of the other bucket is there
  gz,           \* one object's bytes going through a stream adapter
  expired       \* [Procs -> BOOLEAN]: the invocation's AWS credentials have expired

vars == <<staging, dest, now, events, ev, sw, tr, firstUpload, succeeded, deletedBy,
          faulty, variant, foreign, gz, expired>>

\* ------------------------------------------------------------- transfer
\* blob.content_type when the attribute is None.
NoContentType == "<None>"
\* blob.name of each staged object, character by character.
NameOf(k) ==
  IF k = "a.jsonl" THEN <<"a", ".", "j", "s", "o", "n", "l">>
  ELSE <<"b", ".", "l", "o", "g">>
\* blob.content_type of each staged object.
BlobContentType(k) == IF k = "a.jsonl" THEN "application/json" ELSE NoContentType

\* str.endswith
EndsWith(name, suffix) ==
  /\ Len(name) >= Len(suffix)
  /\ SubSeq(name, Len(name) - Len(suffix) + 1, Len(name)) = suffix

\* ContentType with the recorded type taken whenever there is one.
ContentTypeRecordedFirst(name, recorded) ==
  IF recorded \notin {NoContentType, ""} THEN recorded
  ELSE IF \/ EndsWith(name, <<".", "j", "s", "o", "n", "l">>)
          \/ EndsWith(name, <<".", "n", "d", "j", "s", "o", "n">>)
       THEN "application/x-ndjson"
       ELSE "application/octet-stream"

\* Lines 238-242: the content type of the destination object.
ContentType(name, recorded) ==
  IF \/ EndsWith(name, <<".", "j", "s", "o", "n", "l">>)
     \/ EndsWith(name, <<".", "n", "d", "j", "s", "o", "n">>)
  THEN "application/x-ndjson"
  ELSE IF recorded \notin {NoContentType, ""} THEN recorded
       ELSE "application/octet-stream"

\* No upload_fileobj call yet.
NoRequest ==
  [Key |-> NoKey, ContentEncoding |-> "", ContentType |-> "",
   Metadata |-> [x \in {} |-> ""]]

IdleTransfer ==
  [pc |-> "idle", bucket |-> TempBucket, key |-> NoKey, enc |-> NoEncoding, by |-> "unknown",
   adapter |-> "none", opens |-> 0, req |-> NoRequest,
   lease |-> "valid", usedExpired |-> FALSE,
   head |-> "none", probe |-> "none", got |-> 0, readErr |-> FALSE, uploaded |-> FALSE,
   deleted |-> FALSE, raised |-> "none", cause |-> "none", result |-> "none",
   hist |-> <<>>, overlap |-> FALSE, afterSuccess |-> FALSE,
   afterFailedDelete |-> FALSE]

Running(t) == t.pc \notin {"idle", "done"}

\* A call transfer_blob_to_s3(blob, s3_client, target_bucket, transferred_by=by)
\* by invocation p, blob being object k of bucket b; both calls are marked
\* when they work on the same object at the same time. afterFailedDelete: the
\* call begins with the object in both stores and no other call at work on
\* it, which is how a call whose delete failed leaves it.
BeginTransfer(p, b, k, enc, by) ==
  LET q == Other(p)
      both == Running(tr[q]) /\ tr[q].key = k /\ tr[q].bucket = b
  IN tr' = [tr EXCEPT
              ![p] = [IdleTransfer EXCEPT !.pc = "probe", !.bucket = b, !.key = k,
                        !.enc = enc, !.by = by, !.overlap = both,
                        !.lease = IF expired[p] THEN "expired" ELSE "valid",
                        !.afterSuccess = (k \in succeeded),
                        !.afterFailedDelete =
                          (b = TempBucket /\ staging[k] /\ dest[k] # Absent /\ ~both)],
              ![q] = [@ EXCEPT !.overlap = @ \/ both]]

\* Answers that are faults of a store, as opposed to 'no such object'.
StoreFaults == {"403", "503", "error"}
\* The fault answers an operation can give now.
Faults(answers) == IF faulty THEN answers ELSE {}

\* What a call of invocation p's s3_client answers: with expired session
\* credentials every call is refused.
DestAnswers(p, answers) == IF expired[p] THEN {"ExpiredToken"} ELSE answers

\* s3_client.head_object: what the destination answers.
HeadObjectAnswers(k) ==
  (IF dest[k] # Absent THEN {"200"} ELSE {"404"}) \cup Faults({"403"})

\* CheckS3ObjectExists with every error taken for 'the object is there'.
CheckS3ObjectExistsErrorsPresent(answer) ==
  IF answer = "404" THEN "false" ELSE "true"

\* CheckS3ObjectExists with every error taken for 'no such object'.
CheckS3ObjectExistsErrorsAbsent(answer) ==
  IF answer = "200" THEN "true" ELSE "false"

\* check_s3_object_exists: True, False, or the error re-raised.
CheckS3ObjectExists(answer) ==
  CASE answer = "200" -> "true"
    [] answer = "404" -> "false"
    [] OTHER -> "raise"

\* Object k of bucket b is there.
Staged(b, k) == IF b = TempBucket THEN staging[k] ELSE foreign

\* blob.delete(): what the source store answers (NotFound when the object is gone).
BlobDeleteAnswers(b, k) ==
  (IF Staged(b, k) THEN {"ok"} ELSE {"notfound"}) \cup Faults({"error"})

\* RawGCSStream.__init__: the GET and raise_for_status.
RawOpenAnswers(b, k) == IF Staged(b, k) THEN {"200"} \cup Faults({"503"}) ELSE {"404"}

\* What one read of the source can answer. The raw response is one request,
\* already open; the plain reader (blob.open) requests the object on its first
\* read and may serve later reads from what it has buffered.
SourceReadAnswers(t) ==
  Faults({"error"}) \cup
    (IF t.adapter = "RawGCSStream" \/ Staged(t.bucket, t.key) THEN {"data"}
     ELSE IF t.got > 0 THEN {"data", "notfound"}
     ELSE {"notfound"})

\* A value Python takes for true in 'x if enc else y' and 'enc or y'.
Truthy(enc) == enc \notin {NoEncoding, ""}

\* WasGzipped taking every recorded encoding for gzip.
WasGzippedAnyEncoding(enc) == Truthy(enc)

\* Line 246: was_gzipped = gcs_content_encoding == 'gzip' if gcs_content_encoding else False
WasGzipped(enc) == IF Truthy(enc) THEN enc = "gzip" ELSE FALSE

\* Lines 250-251 / 268-271: the adapter the upload reads from.
SelectAdapter(enc) == IF WasGzipped(enc) THEN "RawGCSStream" ELSE "GzipStreamWrapper"

\* UploadRequest with the initiator tag left at the parameter's default.
UploadRequestUntagged(t, adapter) ==
  [Key |-> t.key, ContentEncoding |-> "gzip",
   ContentType |-> ContentType(NameOf(t.key), BlobContentType(t.key)),
   Metadata |-> ("source-bucket" :> t.bucket) @@ ("source-size" :> ToString(BlobSize(t.key)))
                @@ ("original-encoding" :> "gzip") @@ ("transferred-by" :> "unknown")]

\* Lines 252-266 / 272-286: the key and the ExtraArgs of upload_fileobj.
UploadRequest(t, adapter) ==
  [Key |-> t.key, ContentEncoding |-> "gzip",
   ContentType |-> ContentType(NameOf(t.key), BlobContentType(t.key)),
   Metadata |->
     ("source-bucket" :> t.bucket) @@ ("source-size" :> ToString(BlobSize(t.key)))
     @@ ("original-encoding" :>
           IF adapter = "RawGCSStream" THEN "gzip"
           ELSE IF Truthy(t.enc) THEN t.enc ELSE "none")
     @@ ("transferred-by" :> t.by)]

\* Raise with the except clause returning a truthy outcome.
RaiseReturningSuccess(t, where, answer) ==
  [t EXCEPT !.pc = "done", !.raised = where, !.cause = answer, !.result = "success"]

\* Lines 302-310: except Exception: log, return None.
Raise(t, where, answer) ==
  [t EXCEPT !.pc = "done", !.raised = where, !.cause = answer, !.result = "failure"]

\* AfterProbe with the upload started whatever the probe answered.
AfterProbeUploadAnyway(t, exists) ==
  [t EXCEPT !.pc = "open", !.hist = Append(@, "select"),
            !.probe = IF exists = "true" THEN "present" ELSE "absent"]

\* AfterProbe returning 'already_exists' without deleting the source.
AfterProbeSkipDelete(t, exists) ==
  CASE exists = "true" -> [t EXCEPT !.pc = "done", !.probe = "present",
                                    !.result = "already_exists"]
    [] exists = "false" -> [t EXCEPT !.pc = "open", !.probe = "absent",
                                     !.hist = Append(@, "select")]

\* Lines 234-247: after the probe: delete and return, or go on to the upload.
AfterProbe(t, exists) ==
  CASE exists = "true" -> [t EXCEPT !.pc = "del_exists", !.probe = "present"]
    [] exists = "false" -> [t EXCEPT !.pc = "open", !.probe = "absent",
                                     !.hist = Append(@, "select")]

\* Lines 231-247: the probe, and on 'absent' the content type and encoding decision.
TransferProbe(p) ==
  /\ tr[p].pc = "probe"
  /\ \E answer \in DestAnswers(p, HeadObjectAnswers(tr[p].key)) :
       LET exists == CheckS3ObjectExists(answer)
           t == [tr[p] EXCEPT !.hist = Append(@, "probe"), !.head = answer,
                              !.usedExpired = @ \/ expired[p]]
       IN tr' = [tr EXCEPT ![p] =
            IF exists = "raise" THEN Raise(t, "probe", answer) ELSE AfterProbe(t, exists)]
  /\ UNCHANGED <<staging, dest, now, events, ev, sw, firstUpload, succeeded, deletedBy, faulty, variant, foreign, gz, expired>>

\* blob.delete() by invocation p has removed object k of bucket b.
Removed(p, b, k) ==
  IF b = TempBucket
  THEN /\ staging' = [staging EXCEPT ![k] = FALSE]
       /\ deletedBy' = [deletedBy EXCEPT ![k] = p]
       /\ UNCHANGED foreign
  ELSE /\ foreign' = FALSE
       /\ UNCHANGED <<staging, deletedBy>>

\* Line 236: return {'status': 'already_exists', ...}
ReturnAlreadyExists(t) ==
  [t EXCEPT !.pc = "done", !.deleted = TRUE, !.result = "already_exists"]

\* Lines 234-236: the destination has the object: delete the source, return.
TransferDeleteExisting(p) ==
  /\ tr[p].pc = "del_exists"
  /\ \E answer \in BlobDeleteAnswers(tr[p].bucket, tr[p].key) :
       LET t == [tr[p] EXCEPT !.hist = Append(@, "delete")]
       IN IF answer = "ok"
          THEN /\ Removed(p, t.bucket, t.key)
               /\ tr' = [tr EXCEPT ![p] = ReturnAlreadyExists(t)]
          ELSE /\ tr' = [tr EXCEPT ![p] = Raise(t, "delete", answer)]
               /\ UNCHANGED <<staging, deletedBy, foreign>>
  /\ UNCHANGED <<dest, now, events, ev, sw, firstUpload, succeeded, faulty, variant, gz, expired>>

\* Lines 252 / 272: upload_fileobj is called with the adapter.
StartUpload(t) ==
  [t EXCEPT !.pc = "read", !.hist = Append(@, "upload"),
            !.req = UploadRequest(t, t.adapter)]

\* AfterOpen with the request made again after a failure.
AfterOpenRetrying(t, answer) ==
  IF answer = "200" THEN StartUpload(t) ELSE [t EXCEPT !.pc = "open"]

\* Lines 171-176 and 251: RawGCSStream(...) returns, or raise_for_status raises.
AfterOpen(t, answer) ==
  IF answer = "200" THEN StartUpload(t) ELSE Raise(t, "open", answer)

\* Lines 250-251 / 270-271: the adapter is built and upload_fileobj is called.
\* blob.open('rb') issues no request before the first read.
TransferOpen(p) ==
  /\ tr[p].pc = "open"
  /\ LET adapter == SelectAdapter(tr[p].enc)
         t == [tr[p] EXCEPT !.adapter = adapter]
     IN IF adapter = "RawGCSStream"
        THEN \E answer \in RawOpenAnswers(t.bucket, t.key) :
               tr' = [tr EXCEPT ![p] = AfterOpen([t EXCEPT !.opens = @ + 1], answer)]
        ELSE tr' = [tr EXCEPT ![p] = StartUpload(t)]
  /\ UNCHANGED <<staging, dest, now, events, ev, sw, firstUpload, succeeded, deletedBy, faulty, variant, foreign, gz, expired>>

\* One more chunk has gone to the uploader; after the last one, the end of the stream.
Delivered(t) ==
  [t EXCEPT !.got = @ + 1, !.pc = IF t.got + 1 = NChunks THEN "complete" ELSE "read"]

\* RawGCSStream.read: an exception of raw.read is logged and b'' is returned,
\* which the uploader takes for the end of the stream.
RawGCSStreamRead(t, answer) ==
  IF answer = "data" THEN Delivered(t)
  ELSE [t EXCEPT !.readErr = TRUE, !.pc = "complete"]

\* GzipStreamWrapper.read over blob.open('rb'): an exception of the source
\* read propagates to upload_fileobj and out of it.
GzipStreamWrapperRead(t, answer) ==
  IF answer = "data" THEN Delivered(t)
  ELSE Raise(t, "read", answer)

\* The uploader pulls the next chunk through the selected adapter.
TransferRead(p) ==
  /\ tr[p].pc = "read"
  /\ \E answer \in SourceReadAnswers(tr[p]) :
       tr' = [tr EXCEPT ![p] =
         IF tr[p].adapter = "RawGCSStream" THEN RawGCSStreamRead(tr[p], answer)
                               ELSE GzipStreamWrapperRead(tr[p], answer)]
  /\ UNCHANGED <<staging, dest, now, events, ev, sw, firstUpload, succeeded, deletedBy, faulty, variant, foreign, gz, expired>>

\* AfterUpload with the upload's exception swallowed: the delete follows anyway.
AfterUploadIgnoringError(t, answer) ==
  IF answer = "ok"
  THEN [t EXCEPT !.pc = "delete", !.uploaded = TRUE, !.hist = Append(@, "uploaded")]
  ELSE [t EXCEPT !.pc = "delete"]

\* Lines 252-267 / 272-290: upload_fileobj has returned, or raised.
AfterUpload(t, answer) ==
  IF answer = "ok"
  THEN [t EXCEPT !.pc = "delete", !.uploaded = TRUE, !.hist = Append(@, "uploaded")]
  ELSE Raise(t, "upload", answer)

\* upload_fileobj returns: the object becomes visible under the key, whole, at
\* once; or the upload fails and nothing changes at the destination.
TransferComplete(p) ==
  /\ tr[p].pc = "complete"
  /\ \E answer \in DestAnswers(p, {"ok"} \cup Faults({"error"})) :
       /\ tr' = [tr EXCEPT ![p] =
                   AfterUpload([@ EXCEPT !.usedExpired = @ \/ expired[p]], answer)]
       /\ IF answer = "ok"
          THEN /\ dest' = [dest EXCEPT ![tr[p].req.Key] = tr[p].got]
               /\ firstUpload' = [firstUpload EXCEPT ![tr[p].req.Key] =
                                    IF @ = "none" THEN p ELSE @]
          ELSE UNCHANGED <<dest, firstUpload>>
  /\ UNCHANGED <<staging, now, events, ev, sw, succeeded, deletedBy, faulty, variant, foreign, gz, expired>>

\* Lines 292-300: return {'status': 'success', ...}
ReturnSuccess(t) ==
  [t EXCEPT !.pc = "done", !.deleted = TRUE, !.result = "success"]

\* Lines 289-300: delete the source after the upload, return 'success'.
TransferDelete(p) ==
  /\ tr[p].pc = "delete"
  /\ \E answer \in BlobDeleteAnswers(tr[p].bucket, tr[p].key) :
       LET t == [tr[p] EXCEPT !.hist = Append(@, "delete")]
       IN IF answer = "ok"
          THEN /\ Removed(p, t.bucket, t.key)
               /\ succeeded' = IF t.bucket = TempBucket THEN succeeded \cup {t.key}
                                                       ELSE succeeded
               /\ tr' = [tr EXCEPT ![p] = ReturnSuccess(t)]
          ELSE /\ tr' = [tr EXCEPT ![p] = Raise(t, "delete", answer)]
               /\ UNCHANGED <<staging, succeeded, deletedBy, foreign>>
  /\ UNCHANGED <<dest, now, events, ev, sw, firstUpload, faulty, variant, gz, expired>>

\* ---------------------------------------------------------- event handler
\* exit: how the last invocation ended; calls: transfer_blob_to_s3 calls of
\* the running invocation.
IdleEvent ==
  [pc |-> "idle", bucket |-> TempBucket, key |-> NoKey, calls |-> 0, exit |-> "none",
   exchanges |-> 0]

\* The handler returns to the platform.
Return(how) == [IdleEvent EXCEPT !.exit = how]

\* Except with the exception raised again to the platform.
ExceptReRaising(e) == [e EXCEPT !.pc = "raised", !.exit = "raised"]

\* Lines 77-85: except Exception: log, no raise; the handler returns.
Except(e) == Return("error")

\* Lines 24-34 of shared-gcp-resources: the bucket must be TEMP_BUCKET; the
\* gcp-to-s3-pipeline copy goes from the parse (line 22) to the try (line 26).
BucketAccepted(b) == variant = "gcp-to-s3-pipeline" \/ b = TempBucket

\* Lines 19-34: parse the event; reject a bucket that is not TEMP_BUCKET.
EvReceive ==
  /\ ev.pc = "idle"
  /\ \E e \in events :
       /\ events' = events \ {e}
       /\ ev' = IF BucketAccepted(e.bucket)
                THEN [IdleEvent EXCEPT !.pc = "reload", !.bucket = e.bucket,
                                       !.key = e.name]
                ELSE Return("skipped")
  /\ UNCHANGED <<staging, dest, now, sw, tr, firstUpload, succeeded, deletedBy, faulty, variant, foreign, gz, expired>>

\* Lines 38-40: blob.reload() (NotFound when the object is gone), caught at 77.
EvReload ==
  /\ ev.pc = "reload"
  /\ \E answer \in (IF Staged(ev.bucket, ev.key) THEN {"ok"} ELSE {"notfound"})
                     \cup Faults({"error"}) :
       ev' = IF answer = "ok" THEN [ev EXCEPT !.pc = "creds"]
                              ELSE Except(ev)
  /\ UNCHANGED <<staging, dest, now, events, sw, tr, firstUpload, succeeded, deletedBy, faulty, variant, foreign, gz, expired>>

\* Lines 42-57: credentials, client, TARGET_BUCKET, then the one transfer call.
EvCredentials ==
  /\ ev.pc = "creds"
  /\ \E answer \in {"ok"} \cup Faults({"error"}) :
       IF answer = "ok"
       THEN /\ ev' = [ev EXCEPT !.pc = "wait", !.calls = @ + 1, !.exchanges = @ + 1]
            /\ BeginTransfer("event", ev.bucket, ev.key, ContentEncoding(ev.key),
                             "transfer-function")
       ELSE /\ ev' = Except(ev)
            /\ UNCHANGED tr
  /\ UNCHANGED <<staging, dest, now, events, sw, firstUpload, succeeded, deletedBy, faulty, variant, foreign, gz, expired>>

\* AfterTransfer with a failed transfer tried again in the same invocation.
AfterTransferRetrying(e, result) ==
  IF result = "failure" /\ e.calls < 2 THEN [e EXCEPT !.pc = "creds"] ELSE Return("done")

\* Lines 59-75: log what the transfer returned (nothing more for None); return.
AfterTransfer(e, result) == Return("done")

\* Lines 57-75: the transfer call has returned.
EvReturn ==
  /\ ev.pc = "wait"
  /\ tr["event"].pc = "done"
  /\ ev' = AfterTransfer(ev, tr["event"].result)
  /\ tr' = [tr EXCEPT !["event"] = IdleTransfer]
  /\ expired' = [expired EXCEPT !["event"] = FALSE]
  /\ UNCHANGED <<staging, dest, now, events, sw, firstUpload, succeeded, deletedBy, faulty, variant, foreign, gz>>

\* ------------------------------------------------------------------ sweep
IdleSweep ==
  [pc |-> "idle", status |-> 0, startNow |-> 0, threshold |-> 0, cutoff |-> 0,
   listing |-> <<>>, idx |-> 1, total |-> 0, stale |-> 0, success |-> 0,
   failures |-> 0, invoked |-> <<>>, outcomes |-> <<>>, cursor |-> 0,
   more |-> FALSE, raised |-> "none", error |-> "none", exchanges |-> 0]

\* AGE_THRESHOLD_MINUTES: unset, or set.
AgeThresholdSettings == {"unset"}
AgeThresholdMinutes(setting) == IF setting = "unset" THEN DefaultAgeThreshold ELSE 30

\* IsStale with the comparison reversed: the recent objects are retried.
IsStaleReversed(k, cutoff) == TimeCreated(k) > cutoff

\* IsStale with the cutoff itself counted as stale.
IsStaleInclusive(k, cutoff) == TimeCreated(k) =< cutoff

\* blob.time_created < cutoff_time
IsStale(k, cutoff) == TimeCreated(k) < cutoff

\* Collect with a failed transfer ending the sweep.
CollectAbortOnFailure(s, result) ==
  IF result = "failure"
  THEN [s EXCEPT !.pc = "returned", !.status = 500,
                 !.outcomes = Append(@, result)]
  ELSE [s EXCEPT !.pc = "loop", !.idx = @ + 1, !.outcomes = Append(@, result),
                 !.success = @ + 1]

\* Collect with only a new upload counted as a success.
CollectUploadsOnly(s, result) ==
  [s EXCEPT !.pc = "loop", !.idx = @ + 1,
            !.outcomes = Append(@, result),
            !.success = IF result = "success" THEN @ + 1 ELSE @,
            !.failures = IF result = "failure" THEN @ + 1 ELSE @]

\* Lines 57-60: count the outcome (a dict is truthy, None is not), go on.
Collect(s, result) ==
  [s EXCEPT !.pc = "loop", !.idx = @ + 1,
            !.outcomes = Append(@, result),
            !.success = IF result # "failure" THEN @ + 1 ELSE @,
            !.failures = IF result = "failure" THEN @ + 1 ELSE @]

\* What lines 22-39 can raise: KeyError for TEMP_BUCKET, TARGET_BUCKET or
\* AWS_REGION, or the error of get_aws_credentials.
SetupFailures == {"KeyError", "credentials"}

\* Failed with the error taken for an empty bucket: an all-zero summary.
FailedSilently(s, where, error) ==
  [s EXCEPT !.pc = "returned", !.status = 200, !.raised = where]

\* Lines 82-88: except Exception: log, return {'error': str(e)}, 500.
Failed(s, where, error) ==
  [s EXCEPT !.pc = "returned", !.status = 500, !.raised = where, !.error = error]

\* Lines 20-47: configuration, cutoff, credentials, client, counters.
SwStart ==
  /\ sw.pc \in {"idle", "returned"}
  /\ \E setting \in AgeThresholdSettings, answer \in {"ok"} \cup Faults(SetupFailures) :
       sw' = IF answer = "ok"
             THEN [IdleSweep EXCEPT !.pc = "loop", !.more = TRUE, !.startNow = now,
                     !.threshold = AgeThresholdMinutes(setting),
                     !.cutoff = now - AgeThresholdMinutes(setting),
                     !.exchanges = 1]
             ELSE Failed(IdleSweep, "setup", answer)
  /\ expired' = [expired EXCEPT !["sweep"] = FALSE]
  /\ UNCHANGED <<staging, dest, now, events, ev, tr, firstUpload, succeeded, deletedBy, faulty, variant, foreign, gz>>

IndexOf(k) == CHOOSE i \in 1..Len(KeyOrder) : KeyOrder[i] = k
\* The staged objects whose names follow the listing's position.
Remaining(cursor) ==
  SelectSeq(SubSeq(KeyOrder, cursor + 1, Len(KeyOrder)), LAMBDA k : staging[k])

\* The iterator of bucket.list_blobs() has used up what it holds.
NeedsPage(s) == s.idx > Len(s.listing) /\ s.more

\* Line 50: the iterator of bucket.list_blobs() requests its next page: the
\* staged objects after its position, as they are now; or the request fails
\* and the sweep returns 500.
SwList ==
  /\ sw.pc = "loop"
  /\ NeedsPage(sw)
  /\ \E answer \in {"ok"} \cup Faults({"error"}) :
       sw' = IF answer = "ok"
             THEN LET rem == Remaining(sw.cursor)
                      n == IF Len(rem) > PageSize THEN PageSize ELSE Len(rem)
                      page == SubSeq(rem, 1, n)
                  IN [sw EXCEPT !.listing = @ \o page,
                                !.more = Len(rem) > PageSize,
                                !.cursor = IF Len(rem) > PageSize
                                           THEN IndexOf(page[n]) ELSE Len(KeyOrder)]
             ELSE Failed(sw, "listing", answer)
  /\ UNCHANGED <<staging, dest, now, events, ev, tr, firstUpload, succeeded, deletedBy, faulty, variant, foreign, gz, expired>>

\* Lines 50-56 and 62-80: the next listed object, or the summary with status 200.
SwNext ==
  /\ sw.pc = "loop"
  /\ ~NeedsPage(sw)
  /\ IF sw.idx > Len(sw.listing)
     THEN /\ sw' = [sw EXCEPT !.pc = "returned", !.status = 200]
          /\ UNCHANGED tr
     ELSE LET k == sw.listing[sw.idx]
          IN IF IsStale(k, sw.cutoff)
             THEN /\ sw' = [sw EXCEPT !.pc = "wait", !.total = @ + 1, !.stale = @ + 1,
                                      !.invoked = Append(@, k)]
                  /\ BeginTransfer("sweep", TempBucket, k, ContentEncoding(k),
                                   "cleanup-function")
             ELSE /\ sw' = [sw EXCEPT !.total = @ + 1, !.idx = @ + 1]
                  /\ UNCHANGED tr
  /\ UNCHANGED <<staging, dest, now, events, ev, firstUpload, succeeded, deletedBy, faulty, variant, foreign, gz, expired>>

\* Lines 57-60: count the outcome and go on with the next object.
SwCollect ==
  /\ sw.pc = "wait"
  /\ tr["sweep"].pc = "done"
  /\ sw' = Collect(sw, tr["sweep"].result)
  /\ tr' = [tr EXCEPT !["sweep"] = IdleTransfer]
  /\ UNCHANGED <<staging, dest, now, events, ev, firstUpload, succeeded, deletedBy, faulty, variant, foreign, gz, expired>>

\* ------------------------------------------------------------------ clock
Tick ==
  /\ now < MaxTicks * TickMinutes
  /\ now' = now + TickMinutes
  /\ UNCHANGED <<staging, dest, events, ev, sw, tr, firstUpload, succeeded, deletedBy, faulty, variant, foreign, gz, expired>>

\* ----------------------------------------------------------- specification
\* The shared-gcp-resources copy with the creation events of both staged
\* objects waiting; events of another bucket arrive under SpecVariants.
Init ==
  /\ staging = [k \in Keys |-> TRUE]
  /\ dest = [k \in Keys |-> Absent]
  /\ now = 2 * TickMinutes
  /\ events = [bucket : {TempBucket}, name : Keys]
  /\ ev = IdleEvent
  /\ sw = IdleSweep
  /\ tr = [p \in Procs |-> IdleTransfer]
  /\ firstUpload = [k \in Keys |-> "none"]
  /\ succeeded = {}
  /\ deletedBy = [k \in Keys |-> "none"]
  /\ faulty = TRUE
  /\ variant = "shared-gcp-resources"
  /\ foreign = TRUE
  /\ expired = [p \in Procs |-> FALSE]
  /\ gz = NoStream

Transfer(p) ==
  \/ TransferProbe(p)
  \/ TransferDeleteExisting(p)
  \/ TransferOpen(p)
  \/ TransferRead(p)
  \/ TransferComplete(p)
  \/ TransferDelete(p)

Next ==
  \/ \E p \in Procs : Transfer(p)
  \/ EvReceive
  \/ EvReload
  \/ EvCredentials
  \/ EvReturn
  \/ SwStart
  \/ SwList
  \/ SwNext
  \/ SwCollect
  \/ Tick

Spec == Init /\ [][Next]_vars

TypeOK ==
  /\ staging \in [Keys -> BOOLEAN]
  /\ dest \in [Keys -> Absent..NChunks]
  /\ now \in 0..(MaxTicks * TickMinutes)
  /\ firstUpload \in [Keys -> Procs \cup {"none"}]
  /\ succeeded \subseteq Keys
  /\ deletedBy \in [Keys -> Procs \cup {"none"}]
  /\ \A p \in Procs : tr[p].pc \in {"idle", "probe", "del_exists", "open", "read",
                                     "complete", "delete", "done"}

\* ------------------------------------------------------------------ claims
Confirmed(t) == t.probe = "present" \/ t.uploaded
Returned(p) == tr[p].pc = "done"
NotFoundAnswers == {"404", "notfound"}
\* p's transfer ran while the other invocation worked on the same key, and the
\* other invocation's upload of that key completed first.
Loser(p) == Returned(p) /\ tr[p].overlap /\ firstUpload[tr[p].key] = Other(p)

\* C1: a transfer issues the delete of its source only after its probe answered
\* 'present' or its upload call returned; a transfer whose open, read or upload
\* failed has issued no delete, and its source object is still staged when it
\* returns unless the other invocation deleted it.
C1_DeleteOnlyAfterConfirmation ==
  \A p \in Procs :
    LET t == tr[p]
    IN /\ \A i \in 1..Len(t.hist) :
            t.hist[i] = "delete" =>
              (t.probe = "present" \/ \E j \in 1..(i - 1) : t.hist[j] = "uploaded")
       /\ t.deleted => Confirmed(t)
       /\ (t.pc = "done" /\ t.raised \in {"open", "read", "upload"}) =>
            /\ ~t.deleted
            /\ \A i \in 1..Len(t.hist) : t.hist[i] # "delete"
            /\ staging[t.key] \/ deletedBy[t.key] = Other(p)

\* A transfer has returned after its upload failed, with the source still staged.
C1_Witness ==
  \E p \in Procs :
    /\ Returned(p) /\ tr[p].raised = "upload" /\ tr[p].result = "failure"
    /\ staging[tr[p].key]

\* C2: in every reachable state each object has a complete copy in the staging
\* store or in the destination store.
C2_CompleteCopyExists ==
  \A k \in Keys : staging[k] \/ dest[k] = NChunks

C4_SecondTransferAlreadyExists ==
  \A p \in Procs :
    (/\ Returned(p) /\ tr[p].afterSuccess /\ tr[p].cause \notin StoreFaults
     /\ dest[tr[p].key] = NChunks) =>
      tr[p].result = "already_exists" /\ ~tr[p].uploaded

\* C5: a transfer in which the probe, the open, a read, the upload or the
\* delete failed returns failure.
C5_EveryFailureReturnsFailure ==
  \A p \in Procs :
    (Returned(p) /\ (tr[p].cause # "none" \/ tr[p].readErr)) =>
      tr[p].result = "failure"

\* C6 as stated: when a transfer returns, it has deleted the source only if the
\* probe was positive or the upload completed, and if so the source object is
\* gone from staging.
C6_DeletedIffConfirmed ==
  \A p \in Procs :
    (Returned(p) /\ ~tr[p].readErr) =>
      /\ tr[p].deleted => Confirmed(tr[p])
      /\ Confirmed(tr[p]) => ~staging[tr[p].key]

\* C6 as amended: when a transfer returns, it has deleted the source only if
\* the probe was positive or the upload completed; it returns already_exists
\* or success exactly when its delete succeeded, and the source is then gone;
\* after a positive probe or a completed upload the source is still staged
\* only if the delete failed with a store fault, and the transfer then
\* returns failure.
C6_DeletedOnlyIfConfirmed ==
  \A p \in Procs :
    Returned(p) =>
      LET t == tr[p]
      IN /\ t.deleted => Confirmed(t)
         /\ t.deleted <=> t.result \in {"already_exists", "success"}
         /\ t.deleted => ~staging[t.key]
         /\ (Confirmed(t) /\ staging[t.key]) =>
              (t.result = "failure" /\ t.raised = "delete" /\ t.cause \in StoreFaults)

\* A transfer has returned failure after a completed upload whose delete
\* failed: the object is in both stores.
C6_Witness ==
  \E p \in Procs :
    /\ Returned(p) /\ tr[p].uploaded /\ tr[p].raised = "delete"
    /\ staging[tr[p].key] /\ dest[tr[p].key] = NChunks

\* The steps of one transfer in the order the code issues them.
StepOrder == <<"probe", "select", "upload", "uploaded", "delete">>
IsPrefix(s, t) == Len(s) =< Len(t) /\ \A i \in 1..Len(s) : s[i] = t[i]

\* C8: the steps of one transfer are a prefix of probe, adapter selection,
\* upload start, upload end, delete, or the probe followed at once by the
\* delete; an upload is started only after the probe answered 'absent', and a
\* delete only after a positive probe or the end of the upload.
C8_StepsInOrder ==
  \A p \in Procs :
    LET h == tr[p].hist
    IN /\ IsPrefix(h, StepOrder) \/ h = <<"probe", "delete">>
       /\ (\E i \in 1..Len(h) : h[i] = "upload") => tr[p].probe = "absent"
       /\ h = <<"probe", "delete">> => tr[p].probe = "present"

\* A transfer has gone through every step.
C8_Witness ==
  \E p \in Procs : tr[p].hist = StepOrder /\ tr[p].result = "success"

\* The objects of a listing that IsStale selects, in listing order.
StaleOf(listing, cutoff) == SelectSeq(listing, LAMBDA k : IsStale(k, cutoff))
CountOf(outcomes, set) == Cardinality({i \in 1..Len(outcomes) : outcomes[i] \in set})
\* The listed objects the loop has visited.
Visited == SubSeq(sw.listing, 1, IF sw.pc = "wait" THEN sw.idx ELSE sw.idx - 1)

\* C9: at every point of the loop, and when the sweep returns its summary or
\* returns 500 because a page of the listing could not be fetched, every
\* object the listing has returned was visited; the transfers invoked are the
\* stale ones among them, each once and in listing order, whatever the
\* earlier outcomes, and 'failures' counts the failed ones.
C9_FailureNeverAbortsSweep ==
  /\ sw.pc \in {"loop", "wait", "returned"} =>
       /\ sw.invoked = StaleOf(Visited, sw.cutoff)
       /\ Len(sw.outcomes) = Len(sw.invoked) - (IF sw.pc = "wait" THEN 1 ELSE 0)
       /\ sw.failures = CountOf(sw.outcomes, {"failure"})
       /\ sw.success = CountOf(sw.outcomes, {"success", "already_exists"})
  /\ sw.pc = "returned" =>
       /\ Visited = sw.listing
       /\ Len(sw.outcomes) = Len(StaleOf(sw.listing, sw.cutoff))

\* A sweep has returned its summary after the first of two stale objects failed.
C9_Witness ==
  /\ sw.pc = "returned" /\ sw.status = 200
  /\ Len(sw.invoked) = 2 /\ sw.outcomes[1] = "failure" /\ sw.failures >= 1

StoresRecover ==
  /\ faulty
  /\ faulty' = FALSE
  /\ UNCHANGED <<staging, dest, now, events, ev, sw, tr, firstUpload, succeeded, deletedBy,
                 variant, foreign, gz, expired>>

NextLive == Next \/ StoresRecover

\* The creation event of the second object is never delivered, and no event
\* of another bucket arrives.
InitLive ==
  /\ staging = [k \in Keys |-> TRUE]
  /\ dest = [k \in Keys |-> Absent]
  /\ now = 2 * TickMinutes
  /\ events = {[bucket |-> TempBucket, name |-> KeyOrder[1]]}
  /\ ev = IdleEvent
  /\ sw = IdleSweep
  /\ tr = [p \in Procs |-> IdleTransfer]
  /\ firstUpload = [k \in Keys |-> "none"]
  /\ succeeded = {}
  /\ deletedBy = [k \in Keys |-> "none"]
  /\ faulty = TRUE
  /\ variant = "shared-gcp-resources"
  /\ foreign = TRUE
  /\ expired = [p \in Procs |-> FALSE]
  /\ gz = NoStream

\* What the code's scheduling and the claim's assumptions give: the clock
\* advances, the scheduler keeps invoking the sweep, a running invocation
\* takes its next step, and the operations eventually succeed. Nothing makes
\* the platform deliver an event.
SpecLive ==
  /\ InitLive /\ [][NextLive]_vars
  /\ WF_vars(Tick)
  /\ WF_vars(StoresRecover)
  /\ WF_vars(SwStart) /\ WF_vars(SwList) /\ WF_vars(SwNext) /\ WF_vars(SwCollect)
  /\ \A p \in Procs : WF_vars(Transfer(p))

InDestinationOnly(k) == dest[k] # Absent /\ ~staging[k]

\* C7: every staged object is eventually in the destination store and gone
\* from the staging store, whether or not its creation event is handled.
C7_EventualDelivery == \A k \in Keys : <>[]InDestinationOnly(k)

\* The object whose creation event never arrived was moved by a sweep.
C7_Witness ==
  /\ [bucket |-> TempBucket, name |-> "b.log"] \notin events
  /\ InDestinationOnly("b.log") /\ deletedBy["b.log"] = "sweep"
  /\ dest["b.log"] = NChunks

\* ------------------------------------------- both copies of function_source
\* Either copy is deployed; one event of the staging bucket and one of
\* another bucket are waiting.
InitVariants ==
  /\ staging = [k \in Keys |-> TRUE]
  /\ dest = [k \in Keys |-> Absent]
  /\ now = 2 * TickMinutes
  /\ events = {[bucket |-> TempBucket, name |-> KeyOrder[1]],
               [bucket |-> OtherBucket, name |-> KeyOrder[1]]}
  /\ ev = IdleEvent
  /\ sw = IdleSweep
  /\ tr = [p \in Procs |-> IdleTransfer]
  /\ firstUpload = [k \in Keys |-> "none"]
  /\ succeeded = {}
  /\ deletedBy = [k \in Keys |-> "none"]
  /\ faulty = TRUE
  /\ variant \in Variants
  /\ foreign = TRUE
  /\ expired = [p \in Procs |-> FALSE]
  /\ gz = NoStream

SpecVariants == InitVariants /\ [][Next]_vars

\* ------------------------------------------------------- claims C11 to C13
\* C11: a sweep whose setup failed (a missing configuration value, a failed
\* credential exchange) returns status 500 with the error's message; it has
\* listed nothing, counted nothing and called no transfer, so it has
\* transferred and deleted nothing. Status 500 is returned only with an error.
C11_SetupFailureReturns500 ==
  /\ (sw.pc = "returned" /\ sw.raised = "setup") =>
       /\ sw.status = 500 /\ sw.error \in SetupFailures
       /\ sw.listing = <<>> /\ sw.invoked = <<>> /\ sw.outcomes = <<>>
       /\ sw.total = 0 /\ sw.stale = 0 /\ sw.success = 0 /\ sw.failures = 0
       /\ tr["sweep"] = IdleTransfer
  /\ sw.pc = "returned" =>
       /\ sw.status \in {200, 500}
       /\ sw.status = 500 <=> sw.raised # "none"
       /\ sw.status = 500 <=> sw.error # "none"

\* A sweep has returned 500 for a missing configuration value while a stale
\* object is waiting in the staging bucket.
C11_Witness ==
  /\ sw.pc = "returned" /\ sw.raised = "setup" /\ sw.error = "KeyError"
  /\ staging["a.jsonl"] /\ IsStale("a.jsonl", now - DefaultAgeThreshold)

\* C12: the event handler goes past the parse only for an event of the
\* staging bucket: no refresh, credential exchange or transfer is made for an
\* object of another bucket, and no object of another bucket is deleted.
C12_OtherBucketEventsDiscarded ==
  /\ ev.pc # "idle" => ev.bucket = TempBucket
  /\ \A p \in Procs : tr[p].bucket = TempBucket
  /\ foreign

\* C13: the event handler never leaves by an exception: after a failed
\* refresh, credential exchange or configuration lookup, and after any
\* outcome of the transfer, it returns; it calls the transfer at most once,
\* and only its own call runs on its behalf.
C13_HandlerNeverReRaises ==
  /\ ev.pc \in {"idle", "reload", "creds", "wait"}
  /\ ev.exit \in {"none", "skipped", "error", "done"}
  /\ ev.pc # "idle" => ev.exit = "none"
  /\ ev.calls =< 1
  /\ ev.calls = 1 <=> ev.pc = "wait"
  /\ tr["event"].pc # "idle" => ev.pc = "wait"

\* The handler has returned after its refresh or credential exchange failed,
\* with no transfer called.
C13_Witness ==
  /\ ev.pc = "idle" /\ ev.exit = "error" /\ tr["event"] = IdleTransfer
  /\ \E k \in Keys : staging[k] /\ [bucket |-> TempBucket, name |-> k] \notin events

\* ------------------------------------------------ stream adapters, by bytes
\* Longest source byte sequence.
MaxLen == 3
\* chunk_size of GzipStreamWrapper (65536 in the code), scaled.
ChunkSize == 1
\* Largest size a read asks for.
MaxRead == 2
\* The trailer holds the input length modulo this (2^32 in gzip), scaled.
SizeModulus == 4
\* The amount RawGCSStream asks of raw.read (65536 in the code), scaled.
RawChunkSize == 1

Bytes == {0, 1}
ByteSeqs == UNION {[1..n -> Bytes] : n \in 0..MaxLen}
\* The sizes read is called with: -1 is the default of the parameter.
ReadSizes == (-2)..MaxRead
\* Values of blob.content_encoding.
Encodings == {NoEncoding, "", "gzip", "GZIP", "deflate"}

Min(a, b) == IF a < b THEN a ELSE b
Max(a, b) == IF a > b THEN a ELSE b
\* Python's s[:n] and s[n:], n of either sign.
SliceTo(s, n) ==
  IF n >= 0 THEN SubSeq(s, 1, Min(n, Len(s))) ELSE SubSeq(s, 1, Max(Len(s) + n, 0))
SliceFrom(s, n) ==
  IF n >= 0 THEN SubSeq(s, Min(n, Len(s)) + 1, Len(s))
  ELSE SubSeq(s, Max(Len(s) + n, 0) + 1, Len(s))

\* zlib.compressobj(wbits=16 + zlib.MAX_WBITS): a stream of a header byte, the
\* body (each input byte coded against the one before it) and a trailer byte
\* (the input length modulo SizeModulus). The compressor holds its input back
\* until it has a block of it.
GzipMagic == 31
BlockSize == 2 * ChunkSize + 1
NewCompressor ==
  [started |-> FALSE, pending |-> <<>>, prev |-> 0, isize |-> 0, flushed |-> FALSE]

RECURSIVE Deflate(_, _)
Deflate(prev, bytes) ==
  IF bytes = <<>> THEN <<>>
  ELSE <<(bytes[1] + prev) % 2>> \o Deflate(bytes[1], Tail(bytes))

RECURSIVE Inflate(_, _)
Inflate(prev, codes) ==
  IF codes = <<>> THEN <<>>
  ELSE LET b == (codes[1] + prev) % 2 IN <<b>> \o Inflate(b, Tail(codes))

\* compressor.compress(chunk): the compressor after the call and the call's output.
Compress(c, chunk) ==
  LET all == c.pending \o chunk
      n == (Len(all) \div BlockSize) * BlockSize
  IN [c |-> [c EXCEPT !.started = TRUE, !.pending = SubSeq(all, n + 1, Len(all)),
                      !.prev = IF n > 0 THEN all[n] ELSE @,
                      !.isize = (@ + Len(chunk)) % SizeModulus],
      out |-> (IF c.started THEN <<>> ELSE <<GzipMagic>>)
                \o Deflate(c.prev, SubSeq(all, 1, n))]

\* Flush with the trailer left out.
FlushWithoutTrailer(c) ==
  [c |-> [c EXCEPT !.started = TRUE, !.pending = <<>>, !.flushed = TRUE],
   out |-> (IF c.started THEN <<>> ELSE <<GzipMagic>>) \o Deflate(c.prev, c.pending)]

\* compressor.flush(): what is held back, then the trailer.
Flush(c) ==
  [c |-> [c EXCEPT !.started = TRUE, !.pending = <<>>, !.flushed = TRUE],
   out |-> (IF c.started THEN <<>> ELSE <<GzipMagic>>) \o Deflate(c.prev, c.pending)
             \o <<c.isize>>]

\* gzip.decompress: the bytes, or not a gzip stream.
Gunzip(s) ==
  IF \/ Len(s) < 2
     \/ s[1] # GzipMagic
     \/ \E i \in 2..(Len(s) - 1) : s[i] \notin Bytes
     \/ s[Len(s)] # (Len(s) - 2) % SizeModulus
  THEN [ok |-> FALSE, data |-> <<>>]
  ELSE [ok |-> TRUE, data |-> Inflate(0, SubSeq(s, 2, Len(s) - 1))]

\* Lines 65-73: GzipStreamWrapper(fileobj); fileobj is what is left of the
\* source; eof: the source has returned an empty chunk. History of the calls
\* the wrapper has made: fed, the chunks given to compress, in order; flushes,
\* the calls of flush; lateFeeds, the calls of compress after a flush;
\* lateReads, the reads of the source after its empty chunk; maxOut, the
\* longest output of one call of the compressor.
NewGzipStreamWrapper(B) ==
  [fileobj |-> B, compressor |-> NewCompressor, buffer |-> <<>>, finished |-> FALSE,
   bytes_written |-> 0, eof |-> FALSE, fed |-> <<>>, flushes |-> 0, lateFeeds |-> 0,
   lateReads |-> 0, maxOut |-> 0]

\* GzipFill with one read of the source per call instead of the loop.
GzipFillOnce(w, size) ==
  IF ~(Len(w.buffer) < size \/ size = -1) \/ w.finished THEN w
  ELSE LET n == Min(ChunkSize, Len(w.fileobj))
           chunk == SubSeq(w.fileobj, 1, n)
       IN IF chunk = <<>>
          THEN [w EXCEPT !.buffer = @ \o Flush(w.compressor).out,
                         !.compressor = Flush(w.compressor).c,
                         !.finished = TRUE, !.eof = TRUE,
                         !.flushes = @ + 1,
                         !.lateReads = IF w.eof THEN @ + 1 ELSE @,
                         !.maxOut = Max(@, Len(Flush(w.compressor).out))]
          ELSE [w EXCEPT !.fileobj = SubSeq(@, n + 1, Len(@)),
                         !.compressor = Compress(w.compressor, chunk).c,
                         !.buffer = @ \o Compress(w.compressor, chunk).out,
                         !.fed = @ \o chunk,
                         !.lateFeeds = IF w.compressor.flushed THEN @ + 1 ELSE @,
                         !.maxOut = Max(@, Len(Compress(w.compressor, chunk).out))]

\* GzipFill without the test of finished at the head of the loop.
RECURSIVE GzipFillIgnoringFinished(_, _)
GzipFillIgnoringFinished(w, size) ==
  IF ~(Len(w.buffer) < size \/ size = -1) THEN w
  ELSE LET n == Min(ChunkSize, Len(w.fileobj))
           chunk == SubSeq(w.fileobj, 1, n)
       IN IF chunk = <<>>
          THEN [w EXCEPT !.buffer = @ \o Flush(w.compressor).out,
                         !.compressor = Flush(w.compressor).c,
                         !.finished = TRUE, !.eof = TRUE,
                         !.flushes = @ + 1,
                         !.lateReads = IF w.eof THEN @ + 1 ELSE @,
                         !.maxOut = Max(@, Len(Flush(w.compressor).out))]
          ELSE LET w2 == [w EXCEPT !.fileobj = SubSeq(@, n + 1, Len(@)),
                                   !.compressor = Compress(w.compressor, chunk).c,
                                   !.buffer = @ \o Compress(w.compressor, chunk).out,
                                   !.fed = @ \o chunk,
                                   !.lateFeeds =
                                     IF w.compressor.flushed THEN @ + 1 ELSE @,
                                   !.maxOut =
                                     Max(@, Len(Compress(w.compressor, chunk).out))]
               IN IF size # -1 /\ Len(w2.buffer) >= size THEN w2
                  ELSE GzipFillIgnoringFinished(w2, size)

\* Lines 77-95: the loop of read: compress source chunks into the buffer
\* until it holds size bytes, or to the end of the source when size is -1.
RECURSIVE GzipFill(_, _)
GzipFill(w, size) ==
  IF ~(Len(w.buffer) < size \/ size = -1) THEN w
  ELSE IF w.finished THEN w
  ELSE LET n == Min(ChunkSize, Len(w.fileobj))
           chunk == SubSeq(w.fileobj, 1, n)
       IN IF chunk = <<>>
          THEN [w EXCEPT !.buffer = @ \o Flush(w.compressor).out,
                         !.compressor = Flush(w.compressor).c,
                         !.finished = TRUE, !.eof = TRUE,
                         !.flushes = @ + 1,
                         !.lateReads = IF w.eof THEN @ + 1 ELSE @,
                         !.maxOut = Max(@, Len(Flush(w.compressor).out))]
          ELSE LET w2 == [w EXCEPT !.fileobj = SubSeq(@, n + 1, Len(@)),
                                   !.compressor = Compress(w.compressor, chunk).c,
                                   !.buffer = @ \o Compress(w.compressor, chunk).out,
                                   !.fed = @ \o chunk,
                                   !.lateFeeds =
                                     IF w.compressor.flushed THEN @ + 1 ELSE @,
                                   !.maxOut =
                                     Max(@, Len(Compress(w.compressor, chunk).out))]
               IN IF size # -1 /\ Len(w2.buffer) >= size THEN w2
                  ELSE GzipFill(w2, size)

\* GzipTake keeping nothing of the buffer after a sized read.
GzipTakeDroppingRest(w, size) ==
  LET result == IF size = -1 THEN w.buffer ELSE SliceTo(w.buffer, size)
  IN [w |-> [w EXCEPT !.buffer = <<>>, !.bytes_written = @ + Len(result)],
      result |-> result]

\* Lines 97-106: hand out the buffer, or its first size bytes.
GzipTake(w, size) ==
  LET result == IF size = -1 THEN w.buffer ELSE SliceTo(w.buffer, size)
  IN [w |-> [w EXCEPT !.buffer = IF size = -1 THEN <<>> ELSE SliceFrom(@, size),
                      !.bytes_written = @ + Len(result)],
      result |-> result]

\* GzipStreamWrapper.read(size)
GzipRead(w, size) == GzipTake(GzipFill(w, size), size)

\* Lines 168-183: RawGCSStream(bucket_name, object_name) over a response whose
\* body is B; raw is what is left of the body. erred: a read of the response
\* has raised.
NewRawGCSStream(B) ==
  [raw |-> B, buffer |-> <<>>, finished |-> FALSE, bytes_written |-> 0, erred |-> FALSE]

\* What a read of the response that raises can leave of the body.
Suffixes(s) == {SliceFrom(s, n) : n \in 0..Len(s)}

\* Lines 185-212, the except clause: the error is logged, b'' is returned and
\* the buffer stays as it was.
RawExcept(s) ==
  {[s |-> [s EXCEPT !.raw = rest, !.erred = TRUE], raised |-> TRUE] : rest \in Suffixes(s.raw)}

\* Lines 196-202: the loop of read: chunks of the response go into the buffer
\* until it holds size bytes or the body has ended. raw.read(65536) answers
\* with at least one byte and at most that many while the body lasts, with
\* b'' at its end, or raises.
RECURSIVE RawFill(_, _)
RawFill(s, size) ==
  IF ~(Len(s.buffer) < size /\ ~s.finished) THEN {[s |-> s, raised |-> FALSE]}
  ELSE RawExcept(s) \cup
       (IF s.raw = <<>> THEN {[s |-> [s EXCEPT !.finished = TRUE], raised |-> FALSE]}
        ELSE UNION {RawFill([s EXCEPT !.raw = SliceFrom(@, n),
                                      !.buffer = @ \o SliceTo(s.raw, n)], size) :
                      n \in 1..Min(RawChunkSize, Len(s.raw))})

\* Lines 204-208: hand out the first size bytes of the buffer.
RawTake(s, size) ==
  LET result == SliceTo(s.buffer, size)
  IN [s |-> [s EXCEPT !.buffer = SliceFrom(@, size), !.bytes_written = @ + Len(result)],
      result |-> result]

\* RawGCSStream.read(size): the stream after the call and what the call returned.
RawRead(s, size) ==
  IF size = -1
  THEN {[s |-> [s EXCEPT !.raw = <<>>, !.buffer = <<>>, !.finished = TRUE,
                         !.bytes_written = @ + Len(s.buffer \o s.raw)],
         result |-> s.buffer \o s.raw]}
       \cup {[s |-> o.s, result |-> <<>>] : o \in RawExcept(s)}
  ELSE {IF o.raised THEN [s |-> o.s, result |-> <<>>] ELSE RawTake(o.s, size) :
          o \in RawFill(s, size)}

\* Object names, and values of blob.content_type.
Names ==
  {<<"a", ".", "j", "s", "o", "n", "l">>, <<"a", ".", "n", "d", "j", "s", "o", "n">>,
   <<"a", ".", "j", "s", "o", "n", "l", ".", "g", "z">>, <<"j", "s", "o", "n", "l">>,
   <<"a", ".", "J", "S", "O", "N", "L">>, <<"b", ".", "l", "o", "g">>}
ContentTypes == {NoContentType, "", "text/plain", "application/json"}

\* No read made yet. fresh: the read was the first one of its wrapper.
NoRead == [made |-> FALSE, fresh |-> FALSE, size |-> 0, result |-> <<>>]

\* The upload of one object with content_encoding enc and bytes B: the
\* adapter is selected and built, then read with sizes of the reader's choice.
InitAdapters ==
  /\ staging = [k \in Keys |-> TRUE]
  /\ dest = [k \in Keys |-> Absent]
  /\ now = 2 * TickMinutes
  /\ events = {}
  /\ ev = IdleEvent
  /\ sw = IdleSweep
  /\ tr = [p \in Procs |-> IdleTransfer]
  /\ firstUpload = [k \in Keys |-> "none"]
  /\ succeeded = {}
  /\ deletedBy = [k \in Keys |-> "none"]
  /\ faulty = FALSE
  /\ variant = "shared-gcp-resources"
  /\ foreign = TRUE
  /\ expired = [p \in Procs |-> FALSE]
  /\ gz \in [phase : {"new"}, enc : Encodings, B : ByteSeqs, adapter : {"none"},
             w : {NewGzipStreamWrapper(<<>>)}, out : {<<>>}, last : {NoRead},
             raw : {NewRawGCSStream(<<>>)}, rawLast : {NoRead}]
            \cup [phase : {"name"}, name : Names, recorded : ContentTypes,
                  resolved : {""}]

system == <<staging, dest, now, events, ev, sw, tr, firstUpload, succeeded, deletedBy,
            faulty, variant, foreign, expired>>

\* Lines 244-251 / 268-271: the adapter for the object's encoding.
AdSelect ==
  /\ gz.phase = "new"
  /\ gz' = [gz EXCEPT !.phase = "open", !.adapter = SelectAdapter(gz.enc),
                      !.w = NewGzipStreamWrapper(gz.B),
                      !.raw = NewRawGCSStream(gz.B)]
  /\ UNCHANGED system

\* One read(size) of the compressing adapter.
AdRead ==
  /\ gz.phase = "open"
  /\ gz.adapter = "GzipStreamWrapper"
  /\ \E size \in ReadSizes :
       LET r == GzipRead(gz.w, size)
       IN gz' = [gz EXCEPT !.w = r.w, !.out = @ \o r.result,
                           !.last = [made |-> TRUE, fresh |-> ~gz.last.made,
                                     size |-> size, result |-> r.result]]
  /\ UNCHANGED system

\* Lines 238-242: the content type for an object's name and recorded type.
AdContentType ==
  /\ gz.phase = "name"
  /\ gz' = [gz EXCEPT !.phase = "typed",
                      !.resolved = ContentType(gz.name, gz.recorded)]
  /\ UNCHANGED system

\* One read(size) of the passthrough adapter.
AdRawRead ==
  /\ gz.phase = "open"
  /\ gz.adapter = "RawGCSStream"
  /\ \E size \in ReadSizes :
       \E r \in RawRead(gz.raw, size) :
         gz' = [gz EXCEPT !.raw = r.s,
                          !.rawLast = [made |-> TRUE, fresh |-> ~gz.rawLast.made,
                                       size |-> size, result |-> r.result]]
  /\ UNCHANGED system

NextAdapters == AdSelect \/ AdRead \/ AdRawRead \/ AdContentType

SpecAdapters == InitAdapters /\ [][NextAdapters]_vars

\* ------------------------------------------------------- claims C14 to C17
\* What one read(-1) of a fresh wrapper over B returns.
OneShot(B) == GzipRead(NewGzipStreamWrapper(B), -1).result

\* C14: one read(-1) of a fresh GzipStreamWrapper over B returns a non-empty
\* gzip stream that gzip.decompress turns into exactly B, the empty B included.
C14_RoundTrip ==
  (gz.phase = "open" /\ gz.last.fresh /\ gz.last.size = -1) =>
    /\ gz.last.result # <<>>
    /\ Gunzip(gz.last.result) = [ok |-> TRUE, data |-> gz.B]

\* The empty source has been read whole: a header and a trailer, nothing else.
C14_Witness ==
  /\ gz.phase = "open" /\ gz.last.fresh /\ gz.last.size = -1
  /\ gz.B = <<>> /\ Len(gz.last.result) = 2

\* C15: whatever the sizes of the reads, what a GzipStreamWrapper over B has
\* returned so far is a prefix of what one read(-1) of a fresh wrapper over B
\* returns, and it is all of it once a read(-1) has returned or a read of a
\* positive size has returned empty.
C15_ChunkInvariance ==
  gz.phase = "open" =>
    /\ IsPrefix(gz.out, OneShot(gz.B))
    /\ (gz.last.made /\ (gz.last.size = -1 \/ (gz.last.size >= 1 /\ gz.last.result = <<>>)))
         => gz.out = OneShot(gz.B)

\* Sized reads followed by a read(-1) that returned the rest of the stream of
\* a source of the greatest length.
C15_Witness ==
  /\ gz.phase = "open" /\ Len(gz.B) = MaxLen
  /\ ~gz.last.fresh /\ gz.last.size = -1 /\ gz.last.result # <<>>
  /\ Len(gz.out) > Len(gz.last.result) /\ gz.out = OneShot(gz.B)

\* C16: read(n) returns at most n bytes for n >= 0; for n unspecified (-1) or
\* any negative n it returns all that remains: the source is drained, the
\* compressor flushed and nothing is left in the buffer.
C16_ReadSizeContract ==
  (gz.phase = "open" /\ gz.last.made) =>
    /\ gz.last.size >= 0 => Len(gz.last.result) =< gz.last.size
    /\ gz.last.size < 0 =>
         /\ gz.w.finished /\ gz.w.fileobj = <<>> /\ gz.w.buffer = <<>>
         /\ gz.out = OneShot(gz.B)

\* C17: a read of a positive size or of size -1 returns empty only at the
\* end of the stream: the source has returned an empty chunk, the compressor
\* is flushed, the buffer is empty and the whole stream has been returned.
C17_EmptyOnlyAtEnd ==
  (/\ gz.phase = "open" /\ gz.last.made
   /\ (gz.last.size >= 1 \/ gz.last.size = -1) /\ gz.last.result = <<>>) =>
    /\ gz.w.finished /\ gz.w.eof /\ gz.w.compressor.flushed
    /\ gz.w.fileobj = <<>> /\ gz.w.buffer = <<>>
    /\ gz.out = OneShot(gz.B)

\* A sized read of a wrapper over a source of the greatest length has
\* returned empty.
C17_Witness ==
  /\ gz.phase = "open" /\ Len(gz.B) = MaxLen
  /\ gz.last.size >= 1 /\ gz.last.made /\ gz.last.result = <<>>
  /\ Len(gz.out) = MaxLen + 2

\* ------------------------------------------------------- claims C18 to C20
\* C18: a transfer through the passthrough adapter that returns success has
\* relayed every byte of the source: its output count equals blob.size.
C18_PassthroughByteCount ==
  \A p \in Procs :
    (Returned(p) /\ tr[p].result = "success" /\ tr[p].adapter = "RawGCSStream") =>
      tr[p].got = BlobSize(tr[p].key)

\* C19: the passthrough adapter is selected exactly for the recorded encoding
\* 'gzip'; for no encoding, the empty one or any other value the compressing
\* adapter is built over the plain stream of the source's bytes.
C19_AdapterSelection ==
  gz.phase = "open" =>
    /\ gz.adapter = "RawGCSStream" <=> gz.enc = "gzip"
    /\ gz.enc # "gzip" =>
         /\ gz.adapter = "GzipStreamWrapper"
         /\ ~gz.last.made => gz.w = NewGzipStreamWrapper(gz.B)

\* An object recorded with another encoding than 'gzip' goes through the
\* compressing adapter and has been read to its end.
C19_Witness ==
  /\ gz.phase = "open" /\ gz.enc = "GZIP" /\ gz.adapter = "GzipStreamWrapper"
  /\ gz.B # <<>> /\ gz.last.made /\ Gunzip(gz.out) = [ok |-> TRUE, data |-> gz.B]

\* The initiator tag of each handler.
InitiatorTag(p) == IF p = "event" THEN "transfer-function" ELSE "cleanup-function"
MetadataKeys == {"source-bucket", "source-size", "original-encoding", "transferred-by"}

\* C20: every upload a transfer has started, through either adapter, names
\* the source object's key, content-encoding 'gzip' and a metadata map of
\* exactly source-bucket, source-size, original-encoding and transferred-by,
\* the last being the tag of the handler that called the transfer; what an
\* upload stores, it stores under that key.
C20_UploadRequest ==
  \A p \in Procs :
    LET t == tr[p]
    IN /\ (\E i \in 1..Len(t.hist) : t.hist[i] = "upload") =>
            /\ t.adapter \in {"RawGCSStream", "GzipStreamWrapper"}
            /\ t.req.Key = t.key
            /\ t.req.ContentEncoding = "gzip"
            /\ DOMAIN t.req.Metadata = MetadataKeys
            /\ t.req.Metadata["transferred-by"] = InitiatorTag(p)
            /\ t.req.Metadata["source-bucket"] = t.bucket
            /\ t.req.Metadata["source-size"] = ToString(BlobSize(t.key))
            /\ t.req.Metadata["original-encoding"] =
                 (IF ContentEncoding(t.key) = "gzip" THEN "gzip" ELSE "none")
       /\ t.uploaded => dest[t.key] # Absent

\* Both handlers have an upload under way, one through each adapter.
C20_Witness ==
  /\ tr["event"].pc = "read" /\ tr["event"].adapter = "GzipStreamWrapper"
  /\ tr["sweep"].pc = "read" /\ tr["sweep"].adapter = "RawGCSStream"
  /\ tr["sweep"].req.Metadata["transferred-by"] = "cleanup-function"

\* ------------------------------------------------------- claims C21 to C29
\* C21: the destination content type is application/x-ndjson for a name
\* ending in .jsonl or .ndjson, whatever type the source records; for every
\* other name it is the recorded type, or application/octet-stream when none
\* (or the empty one) is recorded.
C21_ContentTypeResolution ==
  gz.phase = "typed" =>
    LET n == Len(gz.name)
        jsonLines ==
          \/ n >= 6 /\ SubSeq(gz.name, n - 5, n) = <<".", "j", "s", "o", "n", "l">>
          \/ n >= 7 /\ SubSeq(gz.name, n - 6, n) = <<".", "n", "d", "j", "s", "o", "n">>
    IN /\ jsonLines => gz.resolved = "application/x-ndjson"
       /\ (~jsonLines /\ gz.recorded \in {NoContentType, ""}) =>
            gz.resolved = "application/octet-stream"
       /\ (~jsonLines /\ gz.recorded \notin {NoContentType, ""}) =>
            gz.resolved = gz.recorded

\* A .ndjson object recorded as text/plain goes out as JSON lines.
C21_Witness ==
  /\ gz.phase = "typed" /\ gz.recorded = "text/plain"
  /\ gz.name = <<"a", ".", "n", "d", "j", "s", "o", "n">>
  /\ gz.resolved = "application/x-ndjson"

\* C22: a transfer whose passthrough adapter could not be built (the GET
\* answered 404 or 503) has made that request once, has started no upload,
\* has not issued a delete, and returns failure; its source object is still
\* staged unless the other invocation deleted it.
C22_FailedOpenReturnsFailure ==
  \A p \in Procs :
    LET t == tr[p]
    IN /\ t.opens =< 1
       /\ (t.pc = "done" /\ t.raised = "open") =>
            /\ t.adapter = "RawGCSStream" /\ t.opens = 1
            /\ t.result = "failure"
            /\ t.hist = <<"probe", "select">>
            /\ t.req = NoRequest /\ t.got = 0
            /\ ~t.uploaded /\ ~t.deleted
            /\ Staged(t.bucket, t.key) \/ deletedBy[t.key] = Other(p)

\* A transfer has returned failure after the source store answered 503 to the
\* adapter's request; the object is staged and not at the destination.
C22_Witness ==
  \E p \in Procs :
    /\ Returned(p) /\ tr[p].raised = "open" /\ tr[p].cause = "503"
    /\ staging[tr[p].key] /\ dest[tr[p].key] = Absent

\* ------------------------------------------------- expiring credentials
\* The session credentials an invocation obtained run out while it works.
HoldsCredentials(p) ==
  IF p = "sweep" THEN sw.pc \in {"loop", "wait"} ELSE ev.pc = "wait"

CredentialsExpire(p) ==
  /\ HoldsCredentials(p)
  /\ ~expired[p]
  /\ expired' = [expired EXCEPT ![p] = TRUE]
  /\ UNCHANGED <<staging, dest, now, events, ev, sw, tr, firstUpload, succeeded,
                 deletedBy, faulty, variant, foreign, gz>>

\* The stores answer without fault; only the credentials fail.
InitExpiry ==
  /\ staging = [k \in Keys |-> TRUE]
  /\ dest = [k \in Keys |-> Absent]
  /\ now = 2 * TickMinutes
  /\ events = [bucket : {TempBucket}, name : Keys]
  /\ ev = IdleEvent
  /\ sw = IdleSweep
  /\ tr = [p \in Procs |-> IdleTransfer]
  /\ firstUpload = [k \in Keys |-> "none"]
  /\ succeeded = {}
  /\ deletedBy = [k \in Keys |-> "none"]
  /\ faulty = FALSE
  /\ variant = "shared-gcp-resources"
  /\ foreign = TRUE
  /\ expired = [p \in Procs |-> FALSE]
  /\ gz = NoStream

NextExpiry == Next \/ \E p \in Procs : CredentialsExpire(p)

SpecExpiry == InitExpiry /\ [][NextExpiry]_vars

\* C23: a transfer that has called the destination with expired credentials
\* has returned failure at that call and has issued no delete; a transfer
\* begun after the credentials expired fails at its probe, before any upload;
\* and an invocation exchanges credentials once, expired or not.
C23_ExpiredCredentialsFail ==
  /\ \A p \in Procs :
       LET t == tr[p]
       IN /\ t.usedExpired =>
               /\ t.pc = "done" /\ t.result = "failure" /\ t.cause = "ExpiredToken"
               /\ t.raised \in {"probe", "upload"}
               /\ ~t.deleted /\ \A i \in 1..Len(t.hist) : t.hist[i] # "delete"
               /\ Staged(t.bucket, t.key) \/ deletedBy[t.key] = Other(p)
          /\ (t.pc = "done" /\ t.lease = "expired") =>
               /\ t.usedExpired /\ t.raised = "probe" /\ t.hist = <<"probe">>
               /\ t.probe = "none"
  /\ sw.exchanges =< 1 /\ ev.exchanges =< 1
  /\ sw.pc \in {"loop", "wait"} => sw.exchanges = 1

\* A sweep whose credentials expired during its first transfer has counted a
\* failure for the next object and left it staged.
C23_Witness ==
  /\ expired["sweep"] /\ sw.pc = "loop" /\ Len(sw.outcomes) = 2
  /\ sw.outcomes[2] = "failure" /\ staging[sw.invoked[2]]
  /\ dest[sw.invoked[2]] = Absent

\* C24: a failed read of the source, under either adapter, ends the upload
\* with the error: the transfer returns failure, no object is completed from
\* what was read up to then, and the source is not deleted.
C24_ReadFailureReturnsFailure ==
  \A p \in Procs :
    LET t == tr[p]
    IN (t.readErr \/ t.raised = "read") =>
         /\ t.pc = "done" /\ t.raised = "read" /\ t.result = "failure"
         /\ ~t.uploaded /\ ~t.deleted

\* C25: over the reads made of one GzipStreamWrapper, the chunks fed to the
\* compressor followed by what is left of the source are the source, in
\* order; the compressor is flushed at most once, and exactly when the
\* wrapper is finished; no chunk is fed after the flush; and the source is
\* not read again after its empty chunk.
C25_SourceConsumedOnce ==
  (gz.phase = "open" /\ gz.adapter = "GzipStreamWrapper") =>
    /\ gz.w.fed \o gz.w.fileobj = gz.B
    /\ gz.w.flushes =< 1
    /\ gz.w.flushes = (IF gz.w.finished THEN 1 ELSE 0)
    /\ gz.w.compressor.flushed = gz.w.finished
    /\ gz.w.finished = gz.w.eof
    /\ gz.w.lateFeeds = 0
    /\ gz.w.lateReads = 0
    /\ gz.w.finished => gz.w.fileobj = <<>>

\* A read made of a wrapper that had already flushed, over a source of more
\* than one chunk, has returned nothing.
C25_Witness ==
  /\ gz.phase = "open" /\ gz.adapter = "GzipStreamWrapper"
  /\ Len(gz.B) > ChunkSize /\ gz.w.finished /\ gz.w.buffer = <<>>
  /\ gz.last.made /\ gz.last.size >= 1 /\ gz.last.result = <<>>
  /\ Len(gz.out) >= 2

\* C26: a transfer whose upload completed and whose delete of the source
\* failed returns failure with the object in both stores; and a transfer of
\* that key begun after it, no store call of its own failing, returns
\* already_exists having deleted the source and uploaded nothing.
C26_FailedDeleteThenAlreadyExists ==
  \A p \in Procs :
    LET t == tr[p]
    IN /\ (Returned(p) /\ t.uploaded /\ t.raised = "delete" /\ t.cause \in StoreFaults) =>
            /\ t.result = "failure" /\ ~t.deleted
            /\ dest[t.key] # Absent
            /\ staging[t.key] \/ deletedBy[t.key] = Other(p)
       /\ (Returned(p) /\ t.afterFailedDelete /\ t.cause \notin StoreFaults) =>
            /\ t.result = "already_exists" /\ t.deleted /\ ~t.uploaded
            /\ t.hist = <<"probe", "delete">>

\* C27: at the head of every iteration of the sweep loop and when the sweep
\* has returned, success + failures = stale_files <= total_files; success is
\* the number of transfers that returned success or already_exists, failures
\* the number that returned failure, one transfer for each stale object seen;
\* while a transfer is under way its object is counted in stale_files only.
C27_CountersAddUp ==
  /\ sw.pc \in {"loop", "returned"} =>
       /\ sw.success + sw.failures = sw.stale
       /\ Len(sw.outcomes) = sw.stale
  /\ sw.pc = "wait" =>
       /\ sw.success + sw.failures = sw.stale - 1
       /\ Len(sw.outcomes) = sw.stale - 1
  /\ sw.stale =< sw.total
  /\ Len(sw.invoked) = sw.stale
  /\ sw.success = CountOf(sw.outcomes, {"success", "already_exists"})
  /\ sw.failures = CountOf(sw.outcomes, {"failure"})
  /\ sw.pc \in {"loop", "wait"} =>
       /\ sw.total = sw.idx - (IF sw.pc = "loop" THEN 1 ELSE 0)
       /\ sw.total - sw.stale =
            Cardinality({i \in 1..sw.total : ~IsStale(sw.listing[i], sw.cutoff)})

\* A sweep has returned its summary after one transfer that found the object
\* at the destination and one that failed.
C27_Witness ==
  /\ sw.pc = "returned" /\ sw.status = 200
  /\ sw.stale = 2 /\ sw.success = 1 /\ sw.failures = 1
  /\ \E i \in 1..2 : sw.outcomes[i] = "already_exists"

\* C28: a transfer whose existence probe was answered with an error other
\* than not-found has taken the object neither for present nor for absent:
\* it has returned failure at the probe, has selected no adapter and sent no
\* upload request, and has issued no delete.
C28_ProbeErrorIsFailure ==
  \A p \in Procs :
    LET t == tr[p]
    IN t.head \notin {"none", "200", "404"} =>
         /\ t.pc = "done" /\ t.result = "failure"
         /\ t.raised = "probe" /\ t.cause = t.head
         /\ t.probe = "none"
         /\ t.hist = <<"probe">>
         /\ t.adapter = "none" /\ t.opens = 0 /\ t.req = NoRequest /\ t.got = 0
         /\ ~t.uploaded /\ ~t.deleted
         /\ Staged(t.bucket, t.key) \/ deletedBy[t.key] = Other(p)

\* A probe answered 'access denied' for an object that is staged and not at
\* the destination.
C28_Witness ==
  \E p \in Procs :
    /\ Returned(p) /\ tr[p].head = "403" /\ tr[p].result = "failure"
    /\ staging[tr[p].key] /\ dest[tr[p].key] = Absent

\* C29: after a read(n) with n >= 1 has returned, a GzipStreamWrapper holds
\* back fewer bytes than the longest output of one call of its compressor,
\* and a RawGCSStream holds back fewer bytes than one chunk of the response
\* (65536 in the code).
C29_BoundedBuffering ==
  gz.phase = "open" =>
    /\ (gz.adapter = "GzipStreamWrapper" /\ gz.last.made /\ gz.last.size >= 1) =>
         Len(gz.w.buffer) < gz.w.maxOut
    /\ (gz.adapter = "RawGCSStream" /\ gz.rawLast.made /\ gz.rawLast.size >= 1) =>
         Len(gz.raw.buffer) < RawChunkSize
====
